---- MODULE Spec2Model ----
(***************************************************************************)
(* SnipVault front end: the session held by AuthProvider, the shared axios *)
(* client `api` with its two interceptors, the interceptor-free client     *)
(* `publicApi`, and the public snippet browser.  The REST backend is not   *)
(* part of the front end sources; its answers are modelled from the        *)
(* interface the front end consumes.                                       *)
(***************************************************************************)
EXTENDS Integers, Sequences, FiniteSets, Bags, TLC

\* At most this many requests are outstanding when a further one is started
\* by a user action.
MaxInFlight == 2

----------------------------------------------------------------------------
(* Values *)

\* localStorage.getItem('token') === null / useState<string | null>
NoToken == "no-token"
\* Tokens the backend issues, and one it no longer accepts (expired).
LiveTokens == {"t1", "t2"}
StaleToken == "t0"
Tokens == LiveTokens \cup {StaleToken}
\* useState<User | null>(null)
NoUser == "no-user"
Users == {"alice", "bob"}

\* No Authorization header on the request.
NoHeader == <<>>
\* `Bearer ${token}`
Bearer(t) == <<"Bearer", t>>

\* HTTP statuses the code distinguishes; NetworkError stands for a failure
\* without a response (error.response is undefined).
Ok == 200
Unauthorized == 401
ServerError == 500
NetworkError == 0

\* URLs are sequences of path separators and segments, so that
\* String.prototype.includes is computed and not assumed.
HealthUrl == <<"/", "health">>
SignupUrl == <<"/", "auth", "/", "signup">>
LoginUrl == <<"/", "auth", "/", "login">>
MeUrl == <<"/", "users", "/", "me">>
PublicSnippetsUrl == <<"/", "public", "/", "snippets">>
PublicListUrl == PublicSnippetsUrl \o <<"/">>
PublicDetailUrl(id) == PublicSnippetsUrl \o <<"/", ToString(id)>>
SnippetsUrl == <<"/", "snippets">>
SnippetUrl(id) == SnippetsUrl \o <<"/", ToString(id)>>
ToggleUrl(id) == SnippetUrl(id) \o <<"/", "toggle-public">>
TagsUrl == <<"/", "tags">>
PublicMarker == <<"/", "public", "/">>
SnippetsPublicMarker == <<"/", "snippets", "/", "public", "/">>

\* url.includes(needle)
Includes(url, needle) ==
    \E i \in 1..(Len(url) - Len(needle) + 1) :
        SubSeq(url, i, i + Len(needle) - 1) = needle

\* URLs a caller hands to apiCall.get: the public listing endpoint, a public
\* detail path in the style of the '/snippets/public/:id' route, and the
\* '/snippets/public' form of the listing path, which holds neither marker.
ApiCallUrls ==
    { PublicSnippetsUrl,
      <<"/", "snippets", "/", "public", "/", "1">>,
      <<"/", "snippets", "/", "public">> }

----------------------------------------------------------------------------
(* The shared client's interceptors *)

\* The request interceptor with its `if (token)` inverted.
RequestInterceptorInverted(stored) ==
    IF stored = NoToken THEN Bearer(stored) ELSE NoHeader

\* api.interceptors.request: the header the request leaves with, given the
\* token read from storage when it is sent.
RequestInterceptor(stored) ==
    IF stored # NoToken THEN Bearer(stored) ELSE NoHeader

\* Variants of the error handler's condition, each a slip the handler could
\* contain: the marker written without its closing slash, the public check
\* left out, the login-page check left out.
ForcesLogoutLooseMarker(status, pathname, url) ==
    /\ status = Unauthorized
    /\ pathname # "/login"
    /\ ~Includes(url, <<"/", "public">>)

ForcesLogoutNoPublicCheck(status, pathname, url) ==
    /\ status = Unauthorized
    /\ pathname # "/login"

ForcesLogoutNoPathCheck(status, pathname, url) ==
    /\ status = Unauthorized
    /\ ~Includes(url, PublicMarker)
    /\ ~Includes(url, SnippetsPublicMarker)

\* The login-page check written with === for !==.
ForcesLogoutOnLoginOnly(status, pathname, url) ==
    /\ status = Unauthorized
    /\ pathname = "/login"
    /\ ~Includes(url, PublicMarker)
    /\ ~Includes(url, SnippetsPublicMarker)

\* api.interceptors.response, the condition of its error handler.
ForcesLogout(status, pathname, url) ==
    /\ status = Unauthorized
    /\ pathname # "/login"
    /\ ~Includes(url, PublicMarker)
    /\ ~Includes(url, SnippetsPublicMarker)

----------------------------------------------------------------------------
(* Snippets and the backend's catalog *)

\* Snippet.description is optional.
NoDescription == <<"undefined">>

\* A snippet as the backend returns it (lib/types Snippet); titles,
\* descriptions and code are character sequences.
MkSnippet(id, title, description, code, language, tagNames, isPublic) ==
    [ id |-> id, title |-> title, description |-> description, code |-> code,
      language |-> language,
      tags |-> [i \in 1..Len(tagNames) |-> [id |-> i, name |-> tagNames[i]]],
      is_public |-> isPublic ]

SnipHi == MkSnippet(1, <<"H", "i">>, NoDescription, <<"a", "B">>, "python",
                    <<"cli">>, TRUE)
SnipLo == MkSnippet(2, <<"b", "a">>, <<"A", "b">>, <<"h">>, "rust",
                    <<"cli", "rust">>, FALSE)
SnipGo == MkSnippet(3, <<"a">>, <<>>, <<"I", "h">>, "go", <<>>, TRUE)

\* The catalogs a run may start from.
Catalogs == { <<SnipHi, SnipLo>>, <<SnipLo, SnipGo, SnipHi>>, <<SnipLo>> }

\* GET /public/snippets: the backend excludes non-public snippets.
PublicOf(cat) == SelectSeq(cat, LAMBDA s : s.is_public)

\* String.prototype.toLowerCase over the letters the snippets use.
LowerChar(c) ==
    CASE c = "A" -> "a"
      [] c = "B" -> "b"
      [] c = "H" -> "h"
      [] c = "I" -> "i"
      [] OTHER -> c

ToLowerCase(str) == [i \in 1..Len(str) |-> LowerChar(str[i])]

\* String.prototype.trim: the string without its leading and trailing
\* white space.
RECURSIVE Trim(_)
Trim(str) ==
    IF str = <<>> THEN <<>>
    ELSE IF Head(str) = " " THEN Trim(Tail(str))
    ELSE IF str[Len(str)] = " " THEN Trim(SubSeq(str, 1, Len(str) - 1))
    ELSE str

\* filteredSnippets comparing the search term letter by letter, case kept.
FilteredSnippetsExact(snippets, searchTerm, selectedLanguage, selectedTag) ==
    SelectSeq(snippets,
              LAMBDA sn :
                /\ \/ searchTerm = <<>>
                   \/ Includes(sn.title, searchTerm)
                   \/ /\ sn.description # NoDescription
                      /\ Includes(sn.description, searchTerm)
                   \/ Includes(sn.code, searchTerm)
                /\ selectedLanguage = "" \/ sn.language = selectedLanguage
                /\ \/ selectedTag = ""
                   \/ \E i \in 1..Len(sn.tags) : sn.tags[i].name = selectedTag)

\* PublicSnippets' filteredSnippets: the fetched snippets that match the
\* search term, the selected language and the selected tag.
FilteredSnippets(snippets, searchTerm, selectedLanguage, selectedTag) ==
    LET matchesSearch(sn) ==
            \/ searchTerm = <<>>
            \/ Includes(ToLowerCase(sn.title), ToLowerCase(searchTerm))
            \/ /\ sn.description # NoDescription
               /\ Includes(ToLowerCase(sn.description),
                           ToLowerCase(searchTerm))
            \/ Includes(ToLowerCase(sn.code), ToLowerCase(searchTerm))
        matchesLanguage(sn) ==
            selectedLanguage = "" \/ sn.language = selectedLanguage
        matchesTag(sn) ==
            \/ selectedTag = ""
            \/ \E i \in 1..Len(sn.tags) : sn.tags[i].name = selectedTag
    IN  SelectSeq(snippets,
                  LAMBDA sn : /\ matchesSearch(sn)
                              /\ matchesLanguage(sn)
                              /\ matchesTag(sn))

\* The largest id in a catalog, 0 for an empty one.
LastIdOf(cat) ==
    IF cat = <<>> THEN 0
    ELSE CHOOSE n \in {cat[i].id : i \in 1..Len(cat)} :
             \A i \in 1..Len(cat) : cat[i].id <= n

\* The backend's token for an account, and the account a token stands for.
TokenOf(username) == IF username = "alice" THEN "t1" ELSE "t2"
TokenUser(t) == IF t = "t1" THEN "alice" ELSE "bob"

----------------------------------------------------------------------------
(* State *)

VARIABLES
    storage,      \* localStorage 'token'
    path,         \* window.location.pathname
    nav,          \* target of a pending window.location.href assignment
    booted,       \* the page's mount effects have run
    user,         \* AuthProvider user
    token,        \* AuthProvider token
    isLoading,    \* AuthProvider isLoading
    net,          \* bag of requests in flight
    pubSnippets,  \* PublicSnippets snippets
    pubLoading,   \* PublicSnippets loading
    pubError,     \* PublicSnippets error
    searchTerm,        \* PublicSnippets searchTerm
    selectedLanguage,  \* PublicSnippets selectedLanguage
    selectedTag,       \* PublicSnippets selectedTag
    catalog,      \* the backend's snippets
    lastId,       \* the id the backend gave to the snippet created last
    tagStore,     \* the backend's tags
    snippets,     \* Dashboard snippets
    dashLoading,  \* Dashboard loading
    dashError,    \* Dashboard error
    alertMsg,     \* text of the last window.alert
    formTags,     \* CreateSnippet tags
    formLoading,  \* CreateSnippet isLoading
    formError,    \* CreateSnippet error
    fieldErrors,  \* CreateSnippet form.formState.errors: the fields in error
    tmOpen,       \* TagManager isOpen (CreateSnippet showTagManager)
    tmMode,       \* TagManager mode
    tmTags,       \* TagManager tags
    tmLoading,    \* TagManager loading
    tmError,      \* TagManager error
    creatingTag,  \* TagManager creatingTag
    viewId,       \* ViewSnippet useParams().id
    viewSnippet,  \* ViewSnippet snippet
    viewLoading,  \* ViewSnippet loading
    viewError,    \* ViewSnippet error
    ev            \* the handler that ran last and how its promise settled

authVars == <<user, token, isLoading>>
filterVars == <<searchTerm, selectedLanguage, selectedTag>>
pubVars == <<pubSnippets, pubLoading, pubError, filterVars>>
serverVars == <<catalog, lastId, tagStore>>
tagVars == <<tmOpen, tmMode, tmTags, tmLoading, tmError, creatingTag>>
dashVars == <<snippets, dashLoading, dashError, alertMsg>>
formVars == <<formTags, formLoading, formError, fieldErrors, tagVars>>
viewVars == <<viewId, viewSnippet, viewLoading, viewError>>
pageVars == <<dashVars, formVars, viewVars>>
vars == <<storage, path, nav, booted, user, token, isLoading, net,
          pubVars, serverVars, pageVars, ev>>

NoNav == "no-nav"
StartPaths == {"/login", "/signup", "/public-snippets"}

\* A request in flight: the operation awaiting it, the client it went
\* through, its URL, its Authorization header, its body, and what the
\* awaiting closure captured: checkAuth's storedToken (ctx), a Dashboard
\* handler's snippetId and the snippets of the render it was created in
\* (id, closure).  mounted tells whether the component that awaits it is
\* still mounted; React drops the state updates of an unmounted one.
Request(op, client, url, auth, body, ctx) ==
    [ op |-> op, client |-> client, url |-> url, auth |-> auth,
      body |-> body, ctx |-> ctx, method |-> "GET", id |-> 0,
      closure |-> <<>>, mounted |-> TRUE ]

\* api.get / api.post: the request interceptor reads storage at send time.
ApiRequest(stored, op, url, body, ctx) ==
    Request(op, "api", url, RequestInterceptor(stored), body, ctx)

\* api.post.
Post(req) == [req EXCEPT !.method = "POST"]

\* The public call routed through the shared client instead.
PublicRequestThroughApi(op, url) ==
    Request(op, "api", url, RequestInterceptor(storage), <<>>, NoToken)

\* publicApi.get: no interceptors.
PublicRequest(op, url) ==
    Request(op, "publicApi", url, NoHeader, <<>>, NoToken)

\* A response: status and payload.
Response(st, tok, usr, list) ==
    [ st |-> st, tok |-> tok, usr |-> usr, list |-> list ]

Failure(st) == Response(st, NoToken, NoUser, <<>>)

Event(op, client, url, st, res) ==
    [ op |-> op, client |-> client, url |-> url, st |-> st, res |-> res ]

Requests == BagToSet(net)
InFlight == BagCardinality(net)
Send(bag, m) == bag (+) SetToBag({m})
Take(bag, m) == bag (-) SetToBag({m})
Count(bag, m) == IF m \in BagToSet(bag) THEN bag[m] ELSE 0

\* The number of requests in flight that ops await for the snippet id.
Outstanding(bag, ops, id) ==
    BagCardinality([ m \in { x \in BagToSet(bag) : x.op \in ops /\ x.id = id }
                       |-> bag[m] ])

\* api.post / api.patch / api.delete on the snippet endpoints, and the
\* Dashboard's api.get, with what the awaiting handler captured.
SnippetRequest(op, method, url, body, id, closure) ==
    [ ApiRequest(storage, op, url, body, NoToken)
        EXCEPT !.method = method, !.id = id, !.closure = closure ]

\* The requests in flight once the components awaiting ops are unmounted.
Unmounted(bag, ops) ==
    LET mark(m) == IF m.op \in ops THEN [m EXCEPT !.mounted = FALSE] ELSE m
    IN  [ t \in { mark(m) : m \in BagToSet(bag) } |->
            IF t.op \in ops
              THEN Count(bag, t) + Count(bag, [t EXCEPT !.mounted = TRUE])
              ELSE bag[t] ]

----------------------------------------------------------------------------
(* The backend, as the front end sees it *)

GoodPassword == "secret1"
Passwords == {GoodPassword, "wrong"}
BadRequest == 400
NotFound == 404

\* The request carries a live bearer token.
Authorized(m) == m.auth # NoHeader /\ m.auth[2] \in LiveTokens

\* The catalog holds a snippet with this id.
Holds(cat, id) == \E i \in 1..Len(cat) : cat[i].id = id

\* The catalog after the backend has answered r to m: POST /snippets appends
\* the new snippet under the next id, DELETE /snippets/{id} removes the
\* snippet, PATCH /snippets/{id}/toggle-public flips its visibility; a
\* request answered with a failure changes nothing.
CatalogAfter(m, r, cat, last) ==
    IF r.st # Ok THEN cat
    ELSE CASE m.method = "POST" /\ m.url = SnippetsUrl ->
                LET d == m.body[1]
                IN  Append(cat, MkSnippet(last + 1, d.title, d.description,
                                          d.code, d.language, d.tags,
                                          d.is_public))
           [] m.method = "DELETE" ->
                SelectSeq(cat, LAMBDA sn : sn.id # m.id)
           [] m.method = "PATCH" ->
                [ i \in 1..Len(cat) |->
                    IF cat[i].id = m.id
                      THEN [cat[i] EXCEPT !.is_public = ~cat[i].is_public]
                      ELSE cat[i] ]
           [] OTHER -> cat

LastIdAfter(m, r, last) ==
    IF r.st = Ok /\ m.method = "POST" /\ m.url = SnippetsUrl
      THEN last + 1 ELSE last

\* The answers the backend may give to a request.  /users/me accepts a live
\* bearer token and rejects a missing or expired one; /auth/login rejects a
\* wrong password; /auth/signup rejects a duplicate account; the public
\* endpoints need no token; the snippet endpoints need a live token, and
\* GET, DELETE and PATCH on one snippet answer 404 for a snippet that is
\* gone.  Any request may also fail in transport.
ServerAnswers(m, cat) ==
    CASE m.url = HealthUrl ->
           { Response(Ok, NoToken, NoUser, <<>>), Failure(NetworkError) }
      [] m.url = MeUrl ->
           (IF Authorized(m)
              THEN { Response(Ok, NoToken, TokenUser(m.auth[2]), <<>>) }
              ELSE { Failure(Unauthorized) })
           \cup { Failure(NetworkError) }
      [] m.url = LoginUrl ->
           (IF m.body[2] = GoodPassword
              THEN { Response(Ok, TokenOf(m.body[1]), NoUser, <<>>) }
              ELSE { Failure(Unauthorized) })
           \cup { Failure(NetworkError) }
      [] m.url = SignupUrl ->
           { Response(Ok, TokenOf(m.body[2]), NoUser, <<>>),
             Failure(BadRequest), Failure(NetworkError) }
      [] m.url = SnippetsUrl /\ m.method = "GET" ->
           (IF Authorized(m)
              THEN { Response(Ok, NoToken, NoUser, cat) }
              ELSE { Failure(Unauthorized) })
           \cup { Failure(NetworkError) }
      [] m.url = SnippetsUrl /\ m.method = "POST" ->
           (IF Authorized(m)
              THEN { Response(Ok, NoToken, NoUser, <<>>),
                     Failure(ServerError) }
              ELSE { Failure(Unauthorized) })
           \cup { Failure(NetworkError) }
      [] m.method = "GET" /\ m.id # 0 /\ m.url = SnippetUrl(m.id) ->
           (IF ~Authorized(m) THEN { Failure(Unauthorized) }
            ELSE IF Holds(cat, m.id)
              THEN { Response(Ok, NoToken, NoUser,
                              SelectSeq(cat, LAMBDA sn : sn.id = m.id)) }
              ELSE { Failure(NotFound) })
           \cup { Failure(NetworkError) }
      [] m.method \in {"DELETE", "PATCH"} ->
           (IF ~Authorized(m) THEN { Failure(Unauthorized) }
            ELSE IF Holds(cat, m.id)
              THEN { Response(Ok, NoToken, NoUser, <<>>) }
              ELSE { Failure(NotFound) })
           \cup { Failure(NetworkError) }
      [] OTHER ->
           { Response(Ok, NoToken, NoUser, PublicOf(cat)),
             Failure(Unauthorized), Failure(ServerError),
             Failure(NetworkError) }

\* The name under which the backend compares and keeps a tag.
TagKey(name) == ToLowerCase(Trim(name))

\* The backend holds a tag of an equivalent name.
HoldsTag(store, name) ==
    \E i \in 1..Len(store) : store[i].name = TagKey(name)

\* The tag POST /tags creates.
NewTag(store, name) == [ id |-> Len(store) + 1, name |-> TagKey(name) ]

\* The backend's tags after it has answered r to m.
TagsAfter(m, r, store) ==
    IF r.st = Ok /\ m.method = "POST" /\ m.url = TagsUrl
      THEN Append(store, NewTag(store, m.body[1].name))
      ELSE store

\* The answers the backend may give on /tags: the list of all tags; the tag
\* created, or a failure for a name it already holds.
TagAnswers(m, store) ==
    (IF ~Authorized(m) THEN { Failure(Unauthorized) }
     ELSE IF m.method = "GET" THEN { Response(Ok, NoToken, NoUser, store) }
     ELSE IF HoldsTag(store, m.body[1].name) THEN { Failure(BadRequest) }
     ELSE { Response(Ok, NoToken, NoUser,
                     <<NewTag(store, m.body[1].name)>>) })
    \cup { Failure(NetworkError) }

----------------------------------------------------------------------------
(* Page load *)

Quiet(op) == Event(op, "-", <<>>, -1, "-")

\* The useState initialisers of PublicSnippets, Dashboard and CreateSnippet.
FreshPublic ==
    /\ pubSnippets = <<>>
    /\ pubLoading = TRUE
    /\ pubError = ""
    /\ searchTerm = <<>>
    /\ selectedLanguage = ""
    /\ selectedTag = ""
FreshDashboard == snippets = <<>> /\ dashLoading = TRUE /\ dashError = ""
FreshForm ==
    /\ formTags = <<>>
    /\ formLoading = FALSE
    /\ formError = ""
    /\ fieldErrors = {}
    /\ tmOpen = FALSE
    /\ tmTags = <<>>
    /\ tmLoading = FALSE
    /\ tmError = ""
    /\ creatingTag = FALSE
\* useState<Snippet | null>(null)
NoSnippet == <<>>
FreshView == viewSnippet = NoSnippet /\ viewLoading = TRUE /\ viewError = ""

\* The state a freshly loaded document starts in (the useState initialisers
\* of AuthProvider and PublicSnippets), before any effect has run.
Loaded(p, stored, cat) ==
    /\ path = p
    /\ storage = stored
    /\ nav = NoNav
    /\ booted = FALSE
    /\ user = NoUser
    /\ token = stored
    /\ isLoading = TRUE
    /\ net = EmptyBag
    /\ FreshPublic
    /\ catalog = cat
    /\ lastId = LastIdOf(cat)
    /\ tagStore = <<>>
    /\ tmMode = "select"
    /\ FreshDashboard
    /\ FreshForm
    /\ FreshView
    /\ viewId = 0
    /\ alertMsg = ""
    /\ ev = Quiet("load")

\* Mount with checkAuth clearing isLoading before its await.
MountStopsLoading ==
    /\ ~booted
    /\ booted' = TRUE
    /\ LET onPublic == path = "/public-snippets"
           n1 == IF onPublic
                   THEN Send(net, PublicRequest("fetchPublicSnippets",
                                                PublicListUrl))
                   ELSE net
           n2 == IF storage = NoToken
                   THEN n1
                   ELSE Send(n1, ApiRequest(storage, "checkAuth", MeUrl,
                                            <<>>, storage))
       IN  /\ net' = Send(n2, ApiRequest(storage, "testApiConnection",
                                         HealthUrl, <<>>, NoToken))
           /\ isLoading' = FALSE
           /\ pubLoading' = TRUE
           /\ pubError' = ""
           /\ UNCHANGED filterVars
    /\ ev' = Quiet("mount")
    /\ UNCHANGED <<storage, path, nav, user, token, pubSnippets,
                   serverVars, pageVars>>

\* The first commit's effects, children first: PublicSnippets'
\* fetchPublicSnippets (when that page is routed), AuthProvider's checkAuth up
\* to its await, App's testApiConnection.
Mount ==
    /\ ~booted
    /\ booted' = TRUE
    /\ LET onPublic == path = "/public-snippets"
           n1 == IF onPublic
                   THEN Send(net, PublicRequest("fetchPublicSnippets",
                                                PublicListUrl))
                   ELSE net
           n2 == IF storage = NoToken
                   THEN n1
                   ELSE Send(n1, ApiRequest(storage, "checkAuth", MeUrl,
                                            <<>>, storage))
       IN  /\ net' = Send(n2, ApiRequest(storage, "testApiConnection",
                                         HealthUrl, <<>>, NoToken))
           /\ isLoading' = (storage # NoToken)
           /\ pubLoading' = TRUE
           /\ pubError' = ""
           /\ UNCHANGED filterVars
    /\ ev' = Quiet("mount")
    /\ UNCHANGED <<storage, path, nav, user, token, pubSnippets,
                   serverVars, pageVars>>

\* The navigation started by window.location.href = '/login' commits: the
\* document is replaced, its requests are dropped, the app starts again.
Reload ==
    /\ nav # NoNav
    /\ path' = nav
    /\ nav' = NoNav
    /\ booted' = FALSE
    /\ user' = NoUser
    /\ token' = storage
    /\ isLoading' = TRUE
    /\ net' = EmptyBag
    /\ pubSnippets' = <<>>
    /\ pubLoading' = TRUE
    /\ pubError' = ""
    /\ searchTerm' = <<>>
    /\ selectedLanguage' = ""
    /\ selectedTag' = ""
    /\ snippets' = <<>>
    /\ dashLoading' = TRUE
    /\ dashError' = ""
    /\ formTags' = <<>>
    /\ formLoading' = FALSE
    /\ formError' = ""
    /\ fieldErrors' = {}
    /\ tmOpen' = FALSE
    /\ tmTags' = <<>>
    /\ tmLoading' = FALSE
    /\ tmError' = ""
    /\ creatingTag' = FALSE
    /\ tmMode' = tmMode
    /\ viewSnippet' = NoSnippet
    /\ viewLoading' = TRUE
    /\ viewError' = ""
    /\ viewId' = viewId
    /\ ev' = Quiet("load")
    /\ UNCHANGED <<storage, serverVars, alertMsg>>

----------------------------------------------------------------------------
(* The response interceptor's effect on a delivered response *)

Hit(m, r) ==
    /\ m.client = "api"
    /\ r.st # Ok
    /\ ForcesLogout(r.st, path, m.url)

StorageAfter(m, r) == IF Hit(m, r) THEN NoToken ELSE storage
NavAfter(m, r) == IF Hit(m, r) THEN "/login" ELSE nav

----------------------------------------------------------------------------
(* AuthProvider *)

\* checkAuth writing the token it read at its start back to storage on
\* success.
CheckAuthResumeRestoresToken(m, r) ==
    /\ m.op = "checkAuth"
    /\ net' = Take(net, m)
    /\ IF r.st = Ok
         THEN /\ user' = r.usr
              /\ token' = m.ctx
              /\ storage' = m.ctx
              /\ nav' = nav
         ELSE /\ storage' = NoToken
              /\ user' = NoUser
              /\ token' = NoToken
              /\ nav' = NavAfter(m, r)
    /\ isLoading' = FALSE
    /\ ev' = Event("checkAuth", m.client, m.url, r.st, "resolved")
    /\ UNCHANGED <<path, booted, pubVars, serverVars, pageVars>>

\* checkAuth with setIsLoading(false) at the end of the try instead of in a
\* finally.
CheckAuthResumeNoFinally(m, r) ==
    /\ m.op = "checkAuth"
    /\ net' = Take(net, m)
    /\ IF r.st = Ok
         THEN /\ user' = r.usr
              /\ token' = m.ctx
              /\ isLoading' = FALSE
              /\ UNCHANGED <<storage, nav>>
         ELSE /\ storage' = NoToken
              /\ user' = NoUser
              /\ token' = NoToken
              /\ isLoading' = isLoading
              /\ nav' = NavAfter(m, r)
    /\ ev' = Event("checkAuth", m.client, m.url, r.st, "resolved")
    /\ UNCHANGED <<path, booted, pubVars, serverVars, pageVars>>

\* checkAuth after its await: the try's tail, or the catch, then the finally.
CheckAuthResume(m, r) ==
    /\ m.op = "checkAuth"
    /\ net' = Take(net, m)
    /\ IF r.st = Ok
         THEN /\ user' = r.usr
              /\ token' = m.ctx
              /\ UNCHANGED <<storage, nav>>
         ELSE /\ storage' = NoToken
              /\ user' = NoUser
              /\ token' = NoToken
              /\ nav' = NavAfter(m, r)
    /\ isLoading' = FALSE
    /\ ev' = Event("checkAuth", m.client, m.url, r.st, "resolved")
    /\ UNCHANGED <<path, booted, pubVars, serverVars, pageVars>>

\* login(username, password) up to its first await.
Login(username, password) ==
    /\ booted
    /\ InFlight < MaxInFlight
    /\ net' = Send(net, Post(ApiRequest(storage, "login", LoginUrl,
                                        <<username, password>>, NoToken)))
    /\ ev' = Quiet("login")
    /\ UNCHANGED <<storage, path, nav, booted, authVars, pubVars,
                   serverVars, pageVars>>

\* login after the token exchange: persist the token and ask for the
\* profile, or rethrow.
LoginToken(m, r) ==
    /\ m.op = "login"
    /\ IF r.st = Ok
         THEN /\ storage' = r.tok
              /\ token' = r.tok
              /\ net' = Send(Take(net, m),
                             ApiRequest(r.tok, "login.me", MeUrl, <<>>,
                                        NoToken))
              /\ nav' = nav
              /\ ev' = Event("login", m.client, m.url, r.st, "-")
         ELSE /\ storage' = StorageAfter(m, r)
              /\ nav' = NavAfter(m, r)
              /\ token' = token
              /\ net' = Take(net, m)
              /\ ev' = Event("login", m.client, m.url, r.st, "rejected")
    /\ UNCHANGED <<path, booted, user, isLoading, pubVars, serverVars,
                   pageVars>>

\* login after the profile request: set the user, or rethrow.
LoginUser(m, r) ==
    /\ m.op = "login.me"
    /\ net' = Take(net, m)
    /\ IF r.st = Ok
         THEN /\ user' = r.usr
              /\ UNCHANGED <<storage, nav>>
              /\ ev' = Event("login.me", m.client, m.url, r.st, "resolved")
         ELSE /\ user' = user
              /\ storage' = StorageAfter(m, r)
              /\ nav' = NavAfter(m, r)
              /\ ev' = Event("login.me", m.client, m.url, r.st, "rejected")
    /\ UNCHANGED <<path, booted, token, isLoading, pubVars, serverVars,
                   pageVars>>

\* signup(email, username, password) up to its first await.
Signup(email, username, password) ==
    /\ booted
    /\ InFlight < MaxInFlight
    /\ net' = Send(net, Post(ApiRequest(storage, "signup", SignupUrl,
                                        <<email, username, password>>,
                                        NoToken)))
    /\ ev' = Quiet("signup")
    /\ UNCHANGED <<storage, path, nav, booted, authVars, pubVars,
                   serverVars, pageVars>>

\* signup after the account creation.
SignupToken(m, r) ==
    /\ m.op = "signup"
    /\ IF r.st = Ok
         THEN /\ storage' = r.tok
              /\ token' = r.tok
              /\ net' = Send(Take(net, m),
                             ApiRequest(r.tok, "signup.me", MeUrl, <<>>,
                                        NoToken))
              /\ nav' = nav
              /\ ev' = Event("signup", m.client, m.url, r.st, "-")
         ELSE /\ storage' = StorageAfter(m, r)
              /\ nav' = NavAfter(m, r)
              /\ token' = token
              /\ net' = Take(net, m)
              /\ ev' = Event("signup", m.client, m.url, r.st, "rejected")
    /\ UNCHANGED <<path, booted, user, isLoading, pubVars, serverVars,
                   pageVars>>

\* signup after the profile request.
SignupUser(m, r) ==
    /\ m.op = "signup.me"
    /\ net' = Take(net, m)
    /\ IF r.st = Ok
         THEN /\ user' = r.usr
              /\ UNCHANGED <<storage, nav>>
              /\ ev' = Event("signup.me", m.client, m.url, r.st, "resolved")
         ELSE /\ user' = user
              /\ storage' = StorageAfter(m, r)
              /\ nav' = NavAfter(m, r)
              /\ ev' = Event("signup.me", m.client, m.url, r.st, "rejected")
    /\ UNCHANGED <<path, booted, token, isLoading, pubVars, serverVars,
                   pageVars>>

\* logout() without its setUser(null).
LogoutKeepsUser ==
    /\ booted
    /\ storage' = NoToken
    /\ token' = NoToken
    /\ nav' = "/login"
    /\ ev' = Quiet("logout")
    /\ UNCHANGED <<path, booted, user, isLoading, net, pubVars, serverVars,
                   pageVars>>

\* logout(): synchronous.
Logout ==
    /\ booted
    /\ storage' = NoToken
    /\ user' = NoUser
    /\ token' = NoToken
    /\ nav' = "/login"
    /\ ev' = Quiet("logout")
    /\ UNCHANGED <<path, booted, isLoading, net, pubVars, serverVars,
                   pageVars>>

----------------------------------------------------------------------------
(* App, PublicSnippets and the api helpers *)

\* testApiConnection after its await: it only logs.
TestApiConnectionResume(m, r) ==
    /\ m.op = "testApiConnection"
    /\ net' = Take(net, m)
    /\ storage' = StorageAfter(m, r)
    /\ nav' = NavAfter(m, r)
    /\ ev' = Event("testApiConnection", m.client, m.url, r.st, "resolved")
    /\ UNCHANGED <<path, booted, authVars, pubVars, serverVars, pageVars>>

\* fetchPublicSnippets that leaves the response's list out of the state.
FetchPublicSnippetsResumeKeepsList(m, r) ==
    /\ m.op = "fetchPublicSnippets"
    /\ net' = Take(net, m)
    /\ pubSnippets' = pubSnippets
    /\ pubError' = IF r.st = Ok \/ ~m.mounted THEN pubError
                   ELSE "Failed to load public snippets. Please try again."
    /\ pubLoading' = IF m.mounted THEN FALSE ELSE pubLoading
    /\ UNCHANGED filterVars
    /\ storage' = StorageAfter(m, r)
    /\ nav' = NavAfter(m, r)
    /\ ev' = Event("fetchPublicSnippets", m.client, m.url, r.st,
                   IF m.mounted THEN "resolved" ELSE "unmounted")
    /\ UNCHANGED <<path, booted, authVars, serverVars, pageVars>>

\* fetchPublicSnippets after its await.
FetchPublicSnippetsResume(m, r) ==
    /\ m.op = "fetchPublicSnippets"
    /\ net' = Take(net, m)
    /\ IF ~m.mounted
         THEN UNCHANGED pubVars
         ELSE /\ IF r.st = Ok
                   THEN /\ pubSnippets' = r.list
                        /\ pubError' = pubError
                   ELSE /\ pubSnippets' = pubSnippets
                        /\ pubError' =
                             "Failed to load public snippets. Please try again."
              /\ pubLoading' = FALSE
              /\ UNCHANGED filterVars
    /\ storage' = StorageAfter(m, r)
    /\ nav' = NavAfter(m, r)
    /\ ev' = Event("fetchPublicSnippets", m.client, m.url, r.st,
                   IF m.mounted THEN "resolved" ELSE "unmounted")
    /\ UNCHANGED <<path, booted, authVars, serverVars, pageVars>>

\* apiCall.get(url): a request through the shared client.
ApiCallGet(url) ==
    /\ booted
    /\ InFlight < MaxInFlight
    /\ net' = Send(net, ApiRequest(storage, "apiCall.get", url, <<>>, NoToken))
    /\ ev' = Quiet("apiCall.get")
    /\ UNCHANGED <<storage, path, nav, booted, authVars, pubVars,
                   serverVars, pageVars>>

\* snippetApi.getPublicSnippets() and getPublicSnippet(id): requests through
\* the public client.
GetPublicSnippets ==
    /\ booted
    /\ InFlight < MaxInFlight
    /\ net' = Send(net, PublicRequest("getPublicSnippets", PublicSnippetsUrl))
    /\ ev' = Quiet("getPublicSnippets")
    /\ UNCHANGED <<storage, path, nav, booted, authVars, pubVars,
                   serverVars, pageVars>>

GetPublicSnippet(id) ==
    /\ booted
    /\ InFlight < MaxInFlight
    /\ net' = Send(net, PublicRequest("getPublicSnippet", PublicDetailUrl(id)))
    /\ ev' = Quiet("getPublicSnippet")
    /\ UNCHANGED <<storage, path, nav, booted, authVars, pubVars,
                   serverVars, pageVars>>

\* The promise of a helper call settles; its caller holds no state here.
HelperSettles(m, r) ==
    /\ m.op \in {"apiCall.get", "getPublicSnippets", "getPublicSnippet"}
    /\ net' = Take(net, m)
    /\ storage' = StorageAfter(m, r)
    /\ nav' = NavAfter(m, r)
    /\ ev' = Event(m.op, m.client, m.url, r.st,
                   IF r.st = Ok THEN "resolved" ELSE "rejected")
    /\ UNCHANGED <<path, booted, authVars, pubVars, serverVars, pageVars>>

----------------------------------------------------------------------------
(* Routes between the Dashboard, the create form and the public browser *)

MaxSnippets == 2

PageOps == { "fetchSnippets", "handleDelete", "handleToggleVisibility",
             "onSubmit", "fetchPublicSnippets", "fetchTags", "createTag",
             "fetchSnippet" }

\* The ids a '/view-snippet/:id' route may carry: those the backend may have
\* given out, and one it has not.
ViewIds == 1..(MaxSnippets + 1)
ViewPath(id) == "/view-snippet/" \o ToString(id)
ViewPaths == { ViewPath(id) : id \in ViewIds }
\* useParams().id of a view route.
RouteId(p) == CHOOSE id \in ViewIds : ViewPath(id) = p

\* snippetApi.getSnippet(parseInt(id)), awaited by ViewSnippet's fetchSnippet.
GetSnippet(id) ==
    SnippetRequest("fetchSnippet", "GET", SnippetUrl(id), <<>>, id, <<>>)

\* navigate(p) with bag in flight.  A change of route unmounts the page shown
\* and mounts p's component, whose mount effect runs: Dashboard's
\* fetchSnippets, PublicSnippets' fetchPublicSnippets, ViewSnippet's
\* fetchSnippet.  navigate to the route already shown mounts nothing.
Navigate(bag, p) ==
    /\ path' = p
    /\ IF p = path
         THEN /\ net' = bag
              /\ UNCHANGED <<snippets, dashLoading, dashError, formVars,
                             viewVars, pubVars>>
         ELSE /\ net' =
                   LET left == Unmounted(bag, PageOps)
                   IN  CASE p = "/dashboard" ->
                              Send(left, SnippetRequest("fetchSnippets", "GET",
                                             SnippetsUrl, <<>>, 0, <<>>))
                         [] p = "/public-snippets" ->
                              Send(left, PublicRequest("fetchPublicSnippets",
                                                       PublicListUrl))
                         [] p \in ViewPaths ->
                              Send(left, GetSnippet(RouteId(p)))
                         [] OTHER -> left
              /\ snippets' = <<>>
              /\ dashLoading' = TRUE
              /\ dashError' = ""
              /\ formTags' = <<>>
              /\ formLoading' = FALSE
              /\ formError' = ""
              /\ fieldErrors' = {}
              /\ tmOpen' = FALSE
              /\ tmTags' = <<>>
              /\ tmLoading' = FALSE
              /\ tmError' = ""
              /\ creatingTag' = FALSE
              /\ tmMode' = tmMode
              /\ viewSnippet' = NoSnippet
              /\ viewLoading' = TRUE
              /\ viewError' = ""
              /\ viewId' = IF p \in ViewPaths THEN RouteId(p) ELSE viewId
              /\ pubSnippets' = <<>>
              /\ pubLoading' = TRUE
              /\ pubError' = ""
              /\ searchTerm' = <<>>
              /\ selectedLanguage' = ""
              /\ selectedTag' = ""

\* Dashboard's 'Create New Snippet' button.
CreateNew ==
    /\ path = "/dashboard"
    /\ Navigate(net, "/create-snippet")
    /\ ev' = Quiet("navigate")
    /\ UNCHANGED <<storage, nav, booted, authVars, serverVars, alertMsg>>

\* Dashboard's 'Explore Public Snippets' button.
ExplorePublic ==
    /\ path = "/dashboard"
    /\ InFlight < MaxInFlight
    /\ Navigate(net, "/public-snippets")
    /\ ev' = Quiet("navigate")
    /\ UNCHANGED <<storage, nav, booted, authVars, serverVars, alertMsg>>

\* The buttons that lead a signed-in user back to the Dashboard: the create
\* form's 'Back to Dashboard' and 'Cancel' (the latter disabled while a
\* submit is in flight), the public browser's and the snippet view's, each
\* rendered once its page has stopped loading.
BackToDashboard ==
    /\ \/ path = "/create-snippet"
       \/ path = "/public-snippets" /\ ~pubLoading /\ user # NoUser
       \/ path \in ViewPaths /\ ~viewLoading
    /\ InFlight < MaxInFlight
    /\ Navigate(net, "/dashboard")
    /\ ev' = Quiet("navigate")
    /\ UNCHANGED <<storage, nav, booted, authVars, serverVars, alertMsg>>

----------------------------------------------------------------------------
(* Dashboard *)

Ids(list) == { list[i].id : i \in 1..Len(list) }

\* The snippet cards are rendered.
CardsShown ==
    path = "/dashboard" /\ ~dashLoading /\ dashError = "" /\ snippets # <<>>

\* fetchSnippets after its await.
FetchSnippetsResume(m, r) ==
    /\ m.op = "fetchSnippets"
    /\ net' = Take(net, m)
    /\ IF ~m.mounted
         THEN UNCHANGED <<snippets, dashLoading, dashError>>
         ELSE /\ IF r.st = Ok
                   THEN snippets' = r.list /\ dashError' = dashError
                   ELSE /\ snippets' = snippets
                        /\ dashError' =
                             "Failed to load your snippets. Please try again."
              /\ dashLoading' = FALSE
    /\ storage' = StorageAfter(m, r)
    /\ nav' = NavAfter(m, r)
    /\ ev' = Event("fetchSnippets", m.client, m.url, r.st,
                   IF m.mounted THEN "resolved" ELSE "unmounted")
    /\ UNCHANGED <<path, booted, authVars, pubVars, serverVars, alertMsg,
                   formVars>>
    /\ UNCHANGED viewVars

\* handleDelete up to its await; confirmed is the answer to window.confirm.
HandleDelete(snippetId, confirmed) ==
    /\ CardsShown
    /\ snippetId \in Ids(snippets)
    /\ IF confirmed
         THEN /\ InFlight < MaxInFlight
              /\ net' = Send(net, SnippetRequest("handleDelete", "DELETE",
                                      SnippetUrl(snippetId), <<>>, snippetId,
                                      snippets))
              /\ ev' = Quiet("handleDelete")
         ELSE /\ net' = net
              /\ ev' = Event("handleDelete", "-", <<>>, -1, "cancelled")
    /\ UNCHANGED <<storage, path, nav, booted, authVars, pubVars, serverVars,
                   pageVars>>

\* handleDelete after its await: the list of the render the handler was
\* created in, without the snippet; or the alert.
HandleDeleteResume(m, r) ==
    /\ m.op = "handleDelete"
    /\ net' = Take(net, m)
    /\ catalog' = CatalogAfter(m, r, catalog, lastId)
    /\ snippets' = IF r.st = Ok /\ m.mounted
                     THEN SelectSeq(m.closure, LAMBDA sn : sn.id # m.id)
                     ELSE snippets
    /\ alertMsg' = IF r.st = Ok THEN alertMsg
                   ELSE "Failed to delete snippet. Please try again."
    /\ storage' = StorageAfter(m, r)
    /\ nav' = NavAfter(m, r)
    /\ ev' = Event("handleDelete", m.client, m.url, r.st,
                   IF m.mounted THEN "resolved" ELSE "unmounted")
    /\ UNCHANGED <<path, booted, authVars, pubVars, lastId, tagStore,
                   dashLoading,
                   dashError, formVars>>
    /\ UNCHANGED viewVars

\* The list with the snippet's is_public negated.
Flipped(list, snippetId) ==
    [ i \in 1..Len(list) |->
        IF list[i].id = snippetId
          THEN [list[i] EXCEPT !.is_public = ~list[i].is_public]
          ELSE list[i] ]

\* handleToggleVisibility that updates the list before the server answers.
HandleToggleVisibilityOptimistic(snippetId) ==
    /\ CardsShown
    /\ snippetId \in Ids(snippets)
    /\ InFlight < MaxInFlight
    /\ net' = Send(net, SnippetRequest("handleToggleVisibility", "PATCH",
                            ToggleUrl(snippetId), <<>>, snippetId, snippets))
    /\ snippets' = Flipped(snippets, snippetId)
    /\ ev' = Quiet("handleToggleVisibility")
    /\ UNCHANGED <<storage, path, nav, booted, authVars, pubVars, serverVars,
                   dashLoading, dashError, alertMsg, formVars>>
    /\ UNCHANGED viewVars

\* handleToggleVisibility up to its await.
HandleToggleVisibility(snippetId) ==
    /\ CardsShown
    /\ snippetId \in Ids(snippets)
    /\ InFlight < MaxInFlight
    /\ net' = Send(net, SnippetRequest("handleToggleVisibility", "PATCH",
                            ToggleUrl(snippetId), <<>>, snippetId, snippets))
    /\ ev' = Quiet("handleToggleVisibility")
    /\ UNCHANGED <<storage, path, nav, booted, authVars, pubVars, serverVars,
                   pageVars>>

\* handleToggleVisibility after its await: the list of the render the handler
\* was created in, with the snippet's is_public negated; or the alert.
HandleToggleVisibilityResume(m, r) ==
    /\ m.op = "handleToggleVisibility"
    /\ net' = Take(net, m)
    /\ catalog' = CatalogAfter(m, r, catalog, lastId)
    /\ snippets' =
         IF r.st = Ok /\ m.mounted
           THEN [ i \in 1..Len(m.closure) |->
                    IF m.closure[i].id = m.id
                      THEN [m.closure[i] EXCEPT
                              !.is_public = ~m.closure[i].is_public]
                      ELSE m.closure[i] ]
           ELSE snippets
    /\ alertMsg' =
         IF r.st = Ok THEN alertMsg
         ELSE "Failed to update snippet visibility. Please try again."
    /\ storage' = StorageAfter(m, r)
    /\ nav' = NavAfter(m, r)
    /\ ev' = Event("handleToggleVisibility", m.client, m.url, r.st,
                   IF m.mounted THEN "resolved" ELSE "unmounted")
    /\ UNCHANGED <<path, booted, authVars, pubVars, lastId, tagStore,
                   dashLoading,
                   dashError, formVars>>
    /\ UNCHANGED viewVars

\* Dashboard's handleView behind a card's 'View' button.
HandleView(snippetId) ==
    /\ CardsShown
    /\ snippetId \in Ids(snippets)
    /\ InFlight < MaxInFlight
    /\ Navigate(net, ViewPath(snippetId))
    /\ ev' = Quiet("navigate")
    /\ UNCHANGED <<storage, nav, booted, authVars, serverVars, alertMsg>>

----------------------------------------------------------------------------
(* ViewSnippet *)

\* The route's id changes under the mounted ViewSnippet (a history entry or
\* a link from one view route to another): the effect on [id] runs
\* fetchSnippet again, here up to its await; no state is reset.
ChangeViewId(id) ==
    /\ path \in ViewPaths
    /\ id # viewId
    /\ InFlight < MaxInFlight
    /\ path' = ViewPath(id)
    /\ viewId' = id
    /\ net' = Send(net, GetSnippet(id))
    /\ ev' = Quiet("fetchSnippet")
    /\ UNCHANGED <<storage, nav, booted, authVars, pubVars, serverVars,
                   dashVars, formVars, viewSnippet, viewLoading, viewError>>

\* The message fetchSnippet's catch sets.
ViewErrorMessage(st) ==
    IF st = NotFound THEN "Snippet not found." ELSE "Failed to load snippet."

\* fetchSnippet after its await.
FetchSnippetResume(m, r) ==
    /\ m.op = "fetchSnippet"
    /\ net' = Take(net, m)
    /\ IF ~m.mounted
         THEN UNCHANGED <<viewSnippet, viewLoading, viewError>>
         ELSE /\ IF r.st = Ok
                   THEN viewSnippet' = r.list /\ viewError' = viewError
                   ELSE /\ viewSnippet' = viewSnippet
                        /\ viewError' = ViewErrorMessage(r.st)
              /\ viewLoading' = FALSE
    /\ storage' = StorageAfter(m, r)
    /\ nav' = NavAfter(m, r)
    /\ ev' = Event("fetchSnippet", m.client, m.url, r.st,
                   IF m.mounted THEN "resolved" ELSE "unmounted")
    /\ UNCHANGED <<path, booted, authVars, pubVars, serverVars, dashVars,
                   formVars, viewId>>

----------------------------------------------------------------------------
(* CreateSnippet *)

TitleMax == 100
DescriptionMax == 500

\* The fields createSnippetSchema rejects.
InvalidFields(data) ==
    { f \in {"title", "language", "description", "code"} :
        CASE f = "title" ->
               ~(Len(data.title) >= 1 /\ Len(data.title) <= TitleMax)
          [] f = "language" -> data.language = ""
          [] f = "description" -> Len(data.description) > DescriptionMax
          [] OTHER -> ~(Len(data.code) >= 1) }

\* The schema without the title's rule.
CreateSnippetSchemaNoTitle(data) == InvalidFields(data) \subseteq {"title"}

\* createSnippetSchema, which handleSubmit applies before it calls onSubmit.
CreateSnippetSchema(data) == InvalidFields(data) = {}

\* What the form may hold when it is submitted.
FormData(title, language, customLanguage, isPublic) ==
    [ title |-> title, language |-> language, description |-> <<>>,
      code |-> <<"p">>, is_public |-> isPublic,
      customLanguage |-> customLanguage ]

FormInputs ==
    { FormData(<<"H", "i">>, "python", "", FALSE),
      FormData(<<"a">>, "other", "zig", TRUE),
      FormData(<<"a">>, "other", "", FALSE) }

FinalLanguage(data) ==
    IF data.language = "other" THEN data.customLanguage ELSE data.language

\* The CreateSnippetRequest onSubmit builds.
SnippetData(data, tags) ==
    [ title |-> data.title, language |-> FinalLanguage(data),
      description |-> IF data.description = <<>> THEN NoDescription
                      ELSE data.description,
      code |-> data.code, is_public |-> data.is_public, tags |-> tags ]

\* The message onSubmit's catch shows for a failed request.
CreateErrorMessage(st) ==
    CASE st = NetworkError -> "Network error. Please check your connection."
      [] st = 422 -> "Invalid data. Please check your input."
      [] st >= ServerError -> "Server error. Please try again later."
      [] OTHER -> "Failed to create snippet. Please try again."

CreatesInFlight == Outstanding(net, {"onSubmit"}, 0)

\* A wider choice of form contents, empty fields included.
FormChoices ==
    { [FormData(title, language, customLanguage, FALSE) EXCEPT !.code = code] :
        title \in {<<>>, <<"H", "i">>},
        language \in {"", "python", "other"},
        customLanguage \in {"", "zig"},
        code \in {<<>>, <<"p">>} }

\* form.handleSubmit(onSubmit) with contents the schema rejects: the fields'
\* errors are shown and onSubmit is not called.
SubmitInvalid(data) ==
    /\ path = "/create-snippet"
    /\ ~formLoading
    /\ ~CreateSnippetSchema(data)
    /\ fieldErrors' = InvalidFields(data)
    /\ ev' = Event("onSubmit", "-", <<>>, -1, "invalid")
    /\ UNCHANGED <<storage, path, nav, booted, authVars, net, pubVars,
                   serverVars, dashVars, formTags, formLoading, formError,
                   tagVars>>
    /\ UNCHANGED viewVars

\* onSubmit up to its await, behind the submit button (disabled while
\* isLoading) and the schema.
OnSubmit(data) ==
    /\ path = "/create-snippet"
    /\ ~formLoading
    /\ CreateSnippetSchema(data)
    /\ fieldErrors' = {}
    /\ IF FinalLanguage(data) = ""
         THEN /\ formError' = "Please enter a custom language name."
              /\ formLoading' = FALSE
              /\ net' = net
              /\ ev' = Event("onSubmit", "-", <<>>, -1, "no-language")
         ELSE /\ InFlight < MaxInFlight
              /\ lastId + CreatesInFlight < MaxSnippets
              /\ formError' = ""
              /\ formLoading' = TRUE
              /\ net' = Send(net, SnippetRequest("onSubmit", "POST",
                                      SnippetsUrl,
                                      <<SnippetData(data, formTags)>>, 0,
                                      <<>>))
              /\ ev' = Quiet("onSubmit")
    /\ UNCHANGED <<storage, path, nav, booted, authVars, pubVars, serverVars,
                   dashVars, formTags, tagVars>>
    /\ UNCHANGED viewVars

\* onSubmit after its await: navigate('/dashboard'), or the catch; then the
\* finally.
OnSubmitResume(m, r) ==
    /\ m.op = "onSubmit"
    /\ catalog' = CatalogAfter(m, r, catalog, lastId)
    /\ lastId' = LastIdAfter(m, r, lastId)
    /\ IF r.st = Ok
         THEN Navigate(Take(net, m), "/dashboard")
         ELSE /\ net' = Take(net, m)
              /\ path' = path
              /\ formError' = IF m.mounted THEN CreateErrorMessage(r.st)
                              ELSE formError
              /\ formLoading' = IF m.mounted THEN FALSE ELSE formLoading
              /\ UNCHANGED <<formTags, fieldErrors, tagVars, snippets,
                             dashLoading, dashError, viewVars, pubVars>>
    /\ storage' = StorageAfter(m, r)
    /\ nav' = NavAfter(m, r)
    /\ ev' = Event("onSubmit", m.client, m.url, r.st,
                   IF m.mounted THEN "resolved" ELSE "unmounted")
    /\ UNCHANGED <<booted, authVars, alertMsg, tagStore>>

----------------------------------------------------------------------------
(* Tags: CreateSnippet's tag input and the TagManager *)

\* What a user may type as a tag name.
TagInputs == { <<>>, <<" ">>, <<"a">>, <<"A">>, <<" ", "a">>, <<"b", " ">> }

\* tags.includes(name)
HasTag(tags, name) == \E i \in 1..Len(tags) : tags[i] = name

\* handleAddTag without its tags.includes check.
HandleAddTagNoCheck(tagInput) ==
    /\ path = "/create-snippet"
    /\ Trim(tagInput) # <<>>
    /\ Len(formTags) <= MaxSnippets
    /\ formTags' = Append(formTags, ToLowerCase(Trim(tagInput)))
    /\ ev' = Event("handleAddTag", "-", <<>>, -1, "-")
    /\ UNCHANGED <<storage, path, nav, booted, authVars, net, pubVars,
                   serverVars, dashVars, formLoading, formError, fieldErrors,
                   tagVars>>
    /\ UNCHANGED viewVars

\* handleAddTag on Enter in the tag input.
HandleAddTag(tagInput) ==
    /\ path = "/create-snippet"
    /\ Trim(tagInput) # <<>>
    /\ LET newTag == ToLowerCase(Trim(tagInput))
       IN  formTags' = IF HasTag(formTags, newTag) THEN formTags
                       ELSE Append(formTags, newTag)
    /\ ev' = Event("handleAddTag", "-", <<>>, -1, "-")
    /\ UNCHANGED <<storage, path, nav, booted, authVars, net, pubVars,
                   serverVars, dashVars, formLoading, formError, fieldErrors,
                   tagVars>>
    /\ UNCHANGED viewVars

\* handleRemoveTag behind a tag's remove button.
HandleRemoveTag(tagToRemove) ==
    /\ path = "/create-snippet"
    /\ HasTag(formTags, tagToRemove)
    /\ formTags' = SelectSeq(formTags, LAMBDA tag : tag # tagToRemove)
    /\ ev' = Event("handleRemoveTag", "-", <<>>, -1, "-")
    /\ UNCHANGED <<storage, path, nav, booted, authVars, net, pubVars,
                   serverVars, dashVars, formLoading, formError, fieldErrors,
                   tagVars>>
    /\ UNCHANGED viewVars

\* snippetApi.getTags and snippetApi.createTag.
GetTags == SnippetRequest("fetchTags", "GET", TagsUrl, <<>>, 0, <<>>)
CreateTagRequest(data, closure) ==
    SnippetRequest("createTag", "POST", TagsUrl, <<data>>, 0, closure)

\* setShowTagManager(true): the TagManager opens and its effect calls
\* fetchTags, here up to its await.
OpenTagManager ==
    /\ path = "/create-snippet"
    /\ ~tmOpen
    /\ InFlight < MaxInFlight
    /\ tmOpen' = TRUE
    /\ tmLoading' = TRUE
    /\ tmError' = ""
    /\ net' = Send(net, GetTags)
    /\ ev' = Quiet("fetchTags")
    /\ UNCHANGED <<storage, path, nav, booted, authVars, pubVars, serverVars,
                   dashVars, formTags, formLoading, formError, fieldErrors,
                   tmMode, tmTags, creatingTag>>
    /\ UNCHANGED viewVars

\* fetchTags after its await.
FetchTagsResume(m, r) ==
    /\ m.op = "fetchTags"
    /\ net' = Take(net, m)
    /\ IF ~m.mounted
         THEN UNCHANGED <<tmTags, tmError, tmLoading>>
         ELSE /\ IF r.st = Ok
                   THEN tmTags' = r.list /\ tmError' = tmError
                   ELSE /\ tmTags' = tmTags
                        /\ tmError' = "Failed to load tags. Please try again."
              /\ tmLoading' = FALSE
    /\ storage' = StorageAfter(m, r)
    /\ nav' = NavAfter(m, r)
    /\ ev' = Event("fetchTags", m.client, m.url, r.st,
                   IF m.mounted THEN "resolved" ELSE "unmounted")
    /\ UNCHANGED <<path, booted, authVars, pubVars, serverVars, dashVars,
                   formTags, formLoading, formError, fieldErrors, tmOpen,
                   tmMode, creatingTag>>
    /\ UNCHANGED viewVars

\* createTag up to its await, behind the 'Add' button and the Enter key of
\* the name input, which the view mode renders.
CreateTag(newTagName) ==
    /\ path = "/create-snippet"
    /\ tmOpen
    /\ tmMode = "view"
    /\ Trim(newTagName) # <<>>
    /\ ~creatingTag
    /\ InFlight < MaxInFlight
    /\ creatingTag' = TRUE
    /\ tmError' = ""
    /\ net' = Send(net, CreateTagRequest([name |-> Trim(newTagName)], tmTags))
    /\ ev' = Quiet("createTag")
    /\ UNCHANGED <<storage, path, nav, booted, authVars, pubVars, serverVars,
                   dashVars, formTags, formLoading, formError, fieldErrors,
                   tmOpen, tmMode, tmTags, tmLoading>>
    /\ UNCHANGED viewVars

\* createTag after its await.
CreateTagResume(m, r) ==
    /\ m.op = "createTag"
    /\ net' = Take(net, m)
    /\ tagStore' = TagsAfter(m, r, tagStore)
    /\ IF ~m.mounted
         THEN UNCHANGED <<tmTags, tmError, creatingTag>>
         ELSE /\ IF r.st = Ok
                   THEN /\ tmTags' = Append(m.closure, r.list[1])
                        /\ tmError' = tmError
                   ELSE /\ tmTags' = tmTags
                        /\ tmError' =
                             "Failed to create tag. Please try again."
              /\ creatingTag' = FALSE
    /\ storage' = StorageAfter(m, r)
    /\ nav' = NavAfter(m, r)
    /\ ev' = Event("createTag", m.client, m.url, r.st,
                   IF m.mounted THEN "resolved" ELSE "unmounted")
    /\ UNCHANGED <<path, booted, authVars, pubVars, catalog, lastId, dashVars,
                   formTags, formLoading, formError, fieldErrors, tmOpen,
                   tmMode, tmLoading>>
    /\ UNCHANGED viewVars

\* handleTagClick on a listed tag: in select mode CreateSnippet's
\* handleTagSelect adds the tag's name and the TagManager closes.
HandleTagClick(tag) ==
    /\ path = "/create-snippet"
    /\ tmOpen
    /\ ~tmLoading
    /\ \E i \in 1..Len(tmTags) : tmTags[i] = tag
    /\ tmMode = "select"
    /\ formTags' = IF HasTag(formTags, tag.name) THEN formTags
                   ELSE Append(formTags, tag.name)
    /\ tmOpen' = FALSE
    /\ ev' = Event("handleTagClick", "-", <<>>, -1, "-")
    /\ UNCHANGED <<storage, path, nav, booted, authVars, net, pubVars,
                   serverVars, dashVars, formLoading, formError, fieldErrors,
                   tmMode, tmTags, tmLoading, tmError, creatingTag>>
    /\ UNCHANGED viewVars

\* The TagManager's close button: onClose.
CloseTagManager ==
    /\ path = "/create-snippet"
    /\ tmOpen
    /\ tmOpen' = FALSE
    /\ ev' = Event("onClose", "-", <<>>, -1, "-")
    /\ UNCHANGED <<storage, path, nav, booted, authVars, net, pubVars,
                   serverVars, dashVars, formTags, formLoading, formError,
                   fieldErrors, tmMode, tmTags, tmLoading, tmError,
                   creatingTag>>
    /\ UNCHANGED viewVars

----------------------------------------------------------------------------
(* The public browser's filters *)

SearchTerms == { <<>>, <<"h">>, <<"A">>, <<"a", "b">>, <<"z">> }

\* The options of the language and tag selects: those of the fetched
\* snippets.
Languages(list) == { list[i].language : i \in 1..Len(list) }
AllTags(list) ==
    UNION { { list[i].tags[j].name : j \in 1..Len(list[i].tags) } :
            i \in 1..Len(list) }

\* The filter controls are rendered.
FiltersShown == path = "/public-snippets" /\ booted /\ ~pubLoading

SetSearchTerm(value) ==
    /\ FiltersShown
    /\ searchTerm' = value
    /\ ev' = Quiet("setSearchTerm")
    /\ UNCHANGED <<storage, path, nav, booted, authVars, net, pubSnippets,
                   pubLoading, pubError, selectedLanguage, selectedTag,
                   serverVars, pageVars>>

SetSelectedLanguage(value) ==
    /\ FiltersShown
    /\ value \in Languages(pubSnippets) \cup {""}
    /\ selectedLanguage' = value
    /\ ev' = Quiet("setSelectedLanguage")
    /\ UNCHANGED <<storage, path, nav, booted, authVars, net, pubSnippets,
                   pubLoading, pubError, searchTerm, selectedTag,
                   serverVars, pageVars>>

SetSelectedTag(value) ==
    /\ FiltersShown
    /\ value \in AllTags(pubSnippets) \cup {""}
    /\ selectedTag' = value
    /\ ev' = Quiet("setSelectedTag")
    /\ UNCHANGED <<storage, path, nav, booted, authVars, net, pubSnippets,
                   pubLoading, pubError, searchTerm, selectedLanguage,
                   serverVars, pageVars>>

----------------------------------------------------------------------------
(* The route guard *)

ProtectedPaths ==
    { "/dashboard", "/create-snippet", "/edit-snippet/1", "/view-snippet/1" }

\* What PrivateRoute renders: nothing of its children while the session
\* check runs, a redirect when there is no user, its children otherwise.
PrivateRoute ==
    IF isLoading THEN "loading"
    ELSE IF user = NoUser THEN "redirect" ELSE "children"

\* A protected view is on screen.
ProtectedShown == path \in ProtectedPaths /\ PrivateRoute = "children"

\* The redirect PrivateRoute renders takes effect: a route change to
\* '/login' inside the running app.
GuardRedirect ==
    /\ path \in ProtectedPaths
    /\ PrivateRoute = "redirect"
    /\ path' = "/login"
    /\ ev' = Quiet("PrivateRoute")
    /\ UNCHANGED <<storage, nav, booted, authVars, net, pubVars, serverVars,
                   pageVars>>

\* A link of the running app to a protected route is followed.
VisitProtected(p) ==
    /\ booted
    /\ p \in ProtectedPaths
    /\ path # p
    /\ path' = p
    /\ ev' = Quiet("navigate")
    /\ UNCHANGED <<storage, nav, booted, authVars, net, pubVars, serverVars,
                   pageVars>>

----------------------------------------------------------------------------
(* Specifications *)

Accounts == { <<"a@x.com", "alice">>, <<"b@x.com", "bob">> }
StartCatalog == <<SnipHi, SnipLo>>

\* The session: page load, login, signup, logout, and the responses to the
\* requests these and the page's effects send.
Init ==
    \E p \in StartPaths, stored \in {NoToken, StaleToken, "t1"} :
        Loaded(p, stored, StartCatalog)

Next ==
    \/ Mount
    \/ Reload
    \/ Logout
    \/ \E u \in Users, pw \in Passwords : Login(u, pw)
    \/ \E a \in Accounts : Signup(a[1], a[2], GoodPassword)
    \/ \E m \in Requests : \E r \in ServerAnswers(m, catalog) :
          \/ CheckAuthResume(m, r)
          \/ LoginToken(m, r)
          \/ LoginUser(m, r)
          \/ SignupToken(m, r)
          \/ SignupUser(m, r)
          \/ TestApiConnectionResume(m, r)
          \/ FetchPublicSnippetsResume(m, r)

Spec == Init /\ [][Next]_vars

\* The two clients: page load, logout, and calls of the api helpers.
NextApi ==
    \/ Mount
    \/ Reload
    \/ Logout
    \/ \E url \in ApiCallUrls : ApiCallGet(url)
    \/ GetPublicSnippets
    \/ GetPublicSnippet(1)
    \/ \E m \in Requests : \E r \in ServerAnswers(m, catalog) :
          \/ CheckAuthResume(m, r)
          \/ TestApiConnectionResume(m, r)
          \/ FetchPublicSnippetsResume(m, r)
          \/ HelperSettles(m, r)

SpecApi == Init /\ [][NextApi]_vars

\* The session with one of login, signup and logout in progress at a time
\* (the user triggers one at a time); the startup checkAuth runs by itself.
NoSessionOp ==
    \A m \in Requests :
        m.op \notin {"login", "login.me", "signup", "signup.me"}

NextSeq ==
    \/ Mount
    \/ Reload
    \/ NoSessionOp /\ Logout
    \/ NoSessionOp /\ \E u \in Users, pw \in Passwords : Login(u, pw)
    \/ NoSessionOp /\ \E a \in Accounts : Signup(a[1], a[2], GoodPassword)
    \/ \E m \in Requests : \E r \in ServerAnswers(m, catalog) :
          \/ CheckAuthResume(m, r)
          \/ LoginToken(m, r)
          \/ LoginUser(m, r)
          \/ SignupToken(m, r)
          \/ SignupUser(m, r)
          \/ TestApiConnectionResume(m, r)
          \/ FetchPublicSnippetsResume(m, r)

SpecSeq == Init /\ [][NextSeq]_vars

\* An anonymous visitor on the login or the signup view: login from the
\* one, signup from the other, each call made without a session and one at
\* a time, and logout.  No token is stored at a page load, so no startup
\* checkAuth request is ever sent, and nothing but the call itself touches
\* the session while it runs.
Anonymous == storage = NoToken /\ token = NoToken /\ user = NoUser

InitLogin ==
    \E p \in {"/login", "/signup"} : Loaded(p, NoToken, StartCatalog)

NextLogin ==
    \/ Mount
    \/ Reload
    \/ NoSessionOp /\ Logout
    \/ NoSessionOp /\ Anonymous /\ path = "/login"
          /\ \E u \in Users, pw \in Passwords : Login(u, pw)
    \/ NoSessionOp /\ Anonymous /\ path = "/signup"
          /\ \E a \in Accounts : Signup(a[1], a[2], GoodPassword)
    \/ \E m \in Requests : \E r \in ServerAnswers(m, catalog) :
          \/ LoginToken(m, r)
          \/ LoginUser(m, r)
          \/ SignupToken(m, r)
          \/ SignupUser(m, r)
          \/ TestApiConnectionResume(m, r)

SpecLogin == InitLogin /\ [][NextLogin]_vars

\* The app opened on the public snippet browser, with any session and any
\* catalog, and left to itself: only the page's own effects run.
InitStartup ==
    \E stored \in {NoToken, StaleToken, "t1"}, cat \in Catalogs :
        Loaded("/public-snippets", stored, cat)

NextStartup ==
    \/ Mount
    \/ Reload
    \/ \E m \in Requests : \E r \in ServerAnswers(m, catalog) :
          \/ CheckAuthResume(m, r)
          \/ TestApiConnectionResume(m, r)
          \/ FetchPublicSnippetsResume(m, r)

SpecStartup == InitStartup /\ [][NextStartup]_vars

\* The same, with what the browser guarantees: a loaded document runs its
\* mount effects, a started navigation commits, and the current-user request
\* is settled, by a response or by a failure.
StartupFairness ==
    /\ WF_vars(Mount)
    /\ WF_vars(Reload)
    /\ WF_vars(\E m \in Requests : \E r \in ServerAnswers(m, catalog) :
                  CheckAuthResume(m, r))

SpecStartupFair == SpecStartup /\ StartupFairness

\* A signed-in owner on the Dashboard, who creates snippets, toggles and
\* deletes them, and looks at the public browser in between.  The owner
\* acts when the last request has been answered, except that the public
\* browser may be opened while a Dashboard request is still in flight.
Idle == net = EmptyBag

InitShare ==
    /\ path = "/dashboard"
    /\ storage = "t1"
    /\ nav = NoNav
    /\ booted = TRUE
    /\ user = "alice"
    /\ token = "t1"
    /\ isLoading = FALSE
    /\ net = SetToBag({ ApiRequest("t1", "fetchSnippets", SnippetsUrl, <<>>,
                                   NoToken) })
    /\ FreshPublic
    /\ catalog = <<>>
    /\ lastId = 0
    /\ tagStore = <<>>
    /\ tmMode = "select"
    /\ FreshDashboard
    /\ FreshForm
    /\ FreshView
    /\ viewId = 0
    /\ alertMsg = ""
    /\ ev = Quiet("mount")

NextShare ==
    \/ Idle /\ CreateNew
    \/ ExplorePublic
    \/ Idle /\ BackToDashboard
    \/ Idle /\ \E data \in FormInputs : OnSubmit(data)
    \/ Idle /\ \E id \in 1..MaxSnippets, confirmed \in BOOLEAN :
                  HandleDelete(id, confirmed)
    \/ Idle /\ \E id \in 1..MaxSnippets : HandleToggleVisibility(id)
    \/ \E m \in Requests : \E r \in ServerAnswers(m, catalog) :
          \/ FetchSnippetsResume(m, r)
          \/ HandleDeleteResume(m, r)
          \/ HandleToggleVisibilityResume(m, r)
          \/ OnSubmitResume(m, r)
          \/ FetchPublicSnippetsResume(m, r)

SpecShare == InitShare /\ [][NextShare]_vars

\* A signed-in owner who stays on the Dashboard and deletes and toggles the
\* snippets it shows, without waiting for the answers.
InitDash ==
    /\ path = "/dashboard"
    /\ storage = "t1"
    /\ nav = NoNav
    /\ booted = TRUE
    /\ user = "alice"
    /\ token = "t1"
    /\ isLoading = FALSE
    /\ net = SetToBag({ ApiRequest("t1", "fetchSnippets", SnippetsUrl, <<>>,
                                   NoToken) })
    /\ FreshPublic
    /\ catalog = StartCatalog
    /\ lastId = LastIdOf(StartCatalog)
    /\ tagStore = <<>>
    /\ tmMode = "select"
    /\ FreshDashboard
    /\ FreshForm
    /\ FreshView
    /\ viewId = 0
    /\ alertMsg = ""
    /\ ev = Quiet("mount")

NextDash ==
    \/ \E id \in Ids(StartCatalog), confirmed \in BOOLEAN :
          HandleDelete(id, confirmed)
    \/ \E id \in Ids(StartCatalog) : HandleToggleVisibility(id)
    \/ \E m \in Requests : \E r \in ServerAnswers(m, catalog) :
          \/ FetchSnippetsResume(m, r)
          \/ HandleDeleteResume(m, r)
          \/ HandleToggleVisibilityResume(m, r)

SpecDash == InitDash /\ [][NextDash]_vars

\* The same owner, toggling only.
NextToggle ==
    \/ \E id \in Ids(StartCatalog) : HandleToggleVisibility(id)
    \/ \E m \in Requests : \E r \in ServerAnswers(m, catalog) :
          \/ FetchSnippetsResume(m, r)
          \/ HandleToggleVisibilityResume(m, r)

SpecToggle == InitDash /\ [][NextToggle]_vars

\* The app opened on a protected route, with any stored token: the session
\* check, the route guard, logout, and login from the login view.
InitGuard ==
    \E p \in ProtectedPaths, stored \in {NoToken, StaleToken, "t1"} :
        Loaded(p, stored, StartCatalog)

NextGuard ==
    \/ Mount
    \/ Reload
    \/ GuardRedirect
    \/ \E p \in ProtectedPaths : VisitProtected(p)
    \/ NoSessionOp /\ Logout
    \/ NoSessionOp /\ path = "/login"
          /\ \E u \in Users, pw \in Passwords : Login(u, pw)
    \/ \E m \in Requests : \E r \in ServerAnswers(m, catalog) :
          \/ CheckAuthResume(m, r)
          \/ LoginToken(m, r)
          \/ LoginUser(m, r)
          \/ TestApiConnectionResume(m, r)

SpecGuard == InitGuard /\ [][NextGuard]_vars

\* An anonymous visitor on the public browser, setting its filters.
InitFilter == \E cat \in Catalogs : Loaded("/public-snippets", NoToken, cat)

NextFilter ==
    \/ Mount
    \/ \E value \in SearchTerms : SetSearchTerm(value)
    \/ \E value \in {"", "python", "go"} : SetSelectedLanguage(value)
    \/ \E value \in {"", "cli"} : SetSelectedTag(value)
    \/ \E m \in Requests : \E r \in ServerAnswers(m, catalog) :
          \/ TestApiConnectionResume(m, r)
          \/ FetchPublicSnippetsResume(m, r)

SpecFilter == InitFilter /\ [][NextFilter]_vars

\* The create form with its tag input and its TagManager, for a signed-in
\* user who waits for each request to be answered; the TagManager in either
\* of its modes, over a backend that holds some tags already.
TagManagerModes == {"view", "select"}
TagStores == { <<>>, <<[id |-> 1, name |-> <<"a">>]>> }
TaggedForm == FormData(<<"H", "i">>, "python", "", FALSE)

InitTags ==
    /\ path = "/create-snippet"
    /\ storage = "t1"
    /\ nav = NoNav
    /\ booted = TRUE
    /\ user = "alice"
    /\ token = "t1"
    /\ isLoading = FALSE
    /\ net = EmptyBag
    /\ FreshPublic
    /\ catalog = <<>>
    /\ lastId = 0
    /\ tagStore \in TagStores
    /\ tmMode \in TagManagerModes
    /\ FreshDashboard
    /\ FreshForm
    /\ FreshView
    /\ viewId = 0
    /\ alertMsg = ""
    /\ ev = Quiet("mount")

TagAnswersTo(m) ==
    IF m.url = TagsUrl THEN TagAnswers(m, tagStore)
    ELSE ServerAnswers(m, catalog)

NextTags ==
    \/ Idle /\ CreateNew
    \/ Idle /\ \E tagInput \in TagInputs : HandleAddTag(tagInput)
    \/ Idle /\ \E tag \in { formTags[i] : i \in 1..Len(formTags) } :
                  HandleRemoveTag(tag)
    \/ Idle /\ OpenTagManager
    \/ Idle /\ CloseTagManager
    \/ Idle /\ \E tag \in { tmTags[i] : i \in 1..Len(tmTags) } :
                  HandleTagClick(tag)
    \/ Idle /\ \E newTagName \in TagInputs : CreateTag(newTagName)
    \/ Idle /\ OnSubmit(TaggedForm)
    \/ \E m \in Requests : \E r \in TagAnswersTo(m) :
          \/ FetchTagsResume(m, r)
          \/ CreateTagResume(m, r)
          \/ OnSubmitResume(m, r)
          \/ FetchSnippetsResume(m, r)

SpecTags == InitTags /\ [][NextTags]_vars

\* The TagManager by itself, in either mode, its requests answered in any
\* order and at any time.
NextTagManager ==
    \/ OpenTagManager
    \/ CloseTagManager
    \/ \E tag \in { tmTags[i] : i \in 1..Len(tmTags) } : HandleTagClick(tag)
    \/ \E newTagName \in TagInputs : CreateTag(newTagName)
    \/ \E m \in Requests : \E r \in TagAnswers(m, tagStore) :
          \/ FetchTagsResume(m, r)
          \/ CreateTagResume(m, r)

SpecTagManager == InitTags /\ [][NextTagManager]_vars

\* The Dashboard and the snippet view of a signed-in user: cards opened,
\* the view's route id changed, the way back, in any interleaving with the
\* answers.
NextView ==
    \/ \E id \in Ids(StartCatalog) : HandleView(id)
    \/ \E id \in ViewIds : ChangeViewId(id)
    \/ BackToDashboard
    \/ \E m \in Requests : \E r \in ServerAnswers(m, catalog) :
          \/ FetchSnippetsResume(m, r)
          \/ FetchSnippetResume(m, r)

SpecView == InitDash /\ [][NextView]_vars

\* A signed-in owner who goes back and forth between the Dashboard and the
\* create form and submits it, without waiting for the answers.
NextForm ==
    \/ CreateNew
    \/ BackToDashboard
    \/ \E data \in FormChoices : OnSubmit(data)
    \/ \E data \in FormChoices : SubmitInvalid(data)
    \/ \E m \in Requests : \E r \in ServerAnswers(m, catalog) :
          \/ FetchSnippetsResume(m, r)
          \/ OnSubmitResume(m, r)

SpecForm == InitShare /\ [][NextForm]_vars

----------------------------------------------------------------------------
(* Properties *)

\* The step just taken delivered a failed response through the shared client.
ApiFailure(e) == e.client = "api" /\ e.st \notin {-1, Ok}
PublicUrl(url) ==
    Includes(url, PublicMarker) \/ Includes(url, SnippetsPublicMarker)

\* C1: a 401 response through the shared client, for a URL holding neither
\* '/public/' nor '/snippets/public/', received while the path is not
\* '/login', removes the stored token and assigns '/login' to the location.
C1_UnauthorizedForcesLogout ==
    [][ ( /\ ApiFailure(ev')
          /\ ev'.st = Unauthorized
          /\ ~PublicUrl(ev'.url)
          /\ path # "/login" )
        => (storage' = NoToken /\ nav' = "/login") ]_vars

C1_Witness ==
    /\ ApiFailure(ev)
    /\ ev.op = "apiCall.get"
    /\ ev.st = Unauthorized
    /\ ~PublicUrl(ev.url)
    /\ path = "/public-snippets"
    /\ storage = NoToken
    /\ nav = "/login"

\* C2: a failed response through the shared client for a URL holding
\* '/public/' or '/snippets/public/' leaves the stored token and the
\* location as they were, whatever the status.
C2_PublicFailureLeavesSession ==
    [][ (ApiFailure(ev') /\ PublicUrl(ev'.url))
        => (storage' = storage /\ path' = path /\ nav' = nav) ]_vars

C2_Witness ==
    /\ ApiFailure(ev)
    /\ ev.st = Unauthorized
    /\ PublicUrl(ev.url)
    /\ path = "/public-snippets"
    /\ storage \in Tokens
    /\ nav = NoNav

\* C3: right after logout() no token is stored and the in-memory user and
\* token are null, whatever the state before.
C3_LogoutClearsSession ==
    ev.op = "logout" => (storage = NoToken /\ user = NoUser /\ token = NoToken)

C3_Witness ==
    /\ ev.op = "logout"
    /\ \E m \in Requests : m.op = "login.me" /\ m.auth # NoHeader
    /\ storage = NoToken
    /\ user = NoUser
    /\ token = NoToken

\* C4: when the startup checkAuth's current-user request fails, the token
\* is removed, user and token become null, checkAuth resolves, and nothing
\* visible happens: no redirect is started and the page stays where it is.
C4_CheckAuthFailsSilently ==
    [][ (ev'.op = "checkAuth" /\ ev'.st # Ok)
        => ( /\ storage' = NoToken
             /\ user' = NoUser
             /\ token' = NoToken
             /\ ev'.res = "resolved"
             /\ nav' = nav
             /\ path' = path ) ]_vars

\* The session a resolved login or signup must leave: the access token of the
\* exchange (the bearer token its profile request carried) stored and held in
\* memory, and the profile of that token as the user.
SessionOf(t) == storage' = t /\ token' = t /\ user' = TokenUser(t)

\* C5: login() and signup() establish a session identically: when the token
\* exchange and the profile request both succeed, each ends with the returned
\* access token in storage and in memory and the returned profile as user.
C5_LoginSignupEstablishSession ==
    [][ (ev'.op \in {"login.me", "signup.me"} /\ ev'.res = "resolved")
        => \A m \in Requests :
              (m.op = ev'.op /\ m.auth # NoHeader) => SessionOf(m.auth[2]) ]_vars

\* C6: when /auth/login rejects the credentials of a login() made on the
\* login view, login() rejects, writes no token, leaves the user as it was
\* (null for an anonymous visitor) and starts no redirect.
C6_RejectedLoginChangesNothing ==
    [][ (ev'.op = "login" /\ ev'.st = Unauthorized /\ path = "/login")
        => ( /\ ev'.res = "rejected"
             /\ storage' = storage
             /\ user' = user
             /\ token' = token
             /\ path' = "/login"
             /\ nav' = nav ) ]_vars

C6_Witness ==
    /\ ev.op = "login"
    /\ ev.st = Unauthorized
    /\ ev.res = "rejected"
    /\ path = "/login"
    /\ storage = NoToken
    /\ user = NoUser
    /\ nav = NoNav

\* Copies of request m among those in flight.

\* C7: every request sent through the shared client carries
\* 'Authorization: Bearer t' for the token t in storage when it is sent, and
\* no Authorization header when storage holds no token.
C7_BearerFromStorage ==
    [][ \A m \in BagToSet(net') :
          (Count(net', m) > Count(net, m) /\ m.client = "api")
          => m.auth = (IF storage' = NoToken THEN <<>>
                       ELSE <<"Bearer", storage'>>) ]_vars

C7_Witness ==
    /\ ev.op = "login"
    /\ ev.st = Ok
    /\ storage = "t1"
    /\ \E m \in Requests :
          m.op = "login.me" /\ m.client = "api" /\ m.auth = <<"Bearer", "t1">>
    /\ \E m \in Requests :
          m.op = "checkAuth" /\ m.auth = <<"Bearer", StaleToken>>

\* C8: the public listing and the public detail are requested through the
\* public client, which attaches no token even when one is stored, and whose
\* failed responses (401 included) neither remove the token nor redirect.
PublicOps == {"fetchPublicSnippets", "getPublicSnippets", "getPublicSnippet"}

C8_PublicClientIsInert ==
    /\ [](\A m \in Requests :
            m.op \in PublicOps => (m.client = "publicApi" /\ m.auth = NoHeader))
    /\ [][ (ev'.op \in PublicOps /\ ev'.st \notin {-1, Ok})
           => (storage' = storage /\ path' = path /\ nav' = nav) ]_vars

C8_Witness ==
    /\ ev.op = "fetchPublicSnippets"
    /\ ev.client = "publicApi"
    /\ ev.st = Unauthorized
    /\ storage \in Tokens
    /\ path = "/public-snippets"
    /\ nav = NoNav
    /\ \E m \in Requests : m.op = "getPublicSnippet" /\ m.auth = NoHeader

\* Filter settings a visitor may have chosen: search term, language, tag.
FilterSettings ==
    { <<<<>>, "", "">>, <<<<"h">>, "", "">>, <<<<>>, "python", "">>,
      <<<<"A">>, "", "cli">> }

Settled == booted /\ net = EmptyBag

\* What an anonymous visitor's browser holds once the public fetch has
\* answered: the public snippets, or nothing next to an error message.
AnonymousList == IF pubError = "" THEN PublicOf(catalog) ELSE <<>>

\* C9: the public snippet browser behaves the same whatever the session: once
\* the app opened on '/public-snippets' has settled, with no token, a valid
\* token or a rejected token, it is still on the public page and holds the
\* list, and for every filter setting the filtered list, that an anonymous
\* visitor gets for the same catalog.
C9_PublicBrowserIgnoresSession ==
    Settled =>
        /\ path = "/public-snippets"
        /\ nav = NoNav
        /\ ~pubLoading
        /\ pubSnippets = AnonymousList
        /\ \A f \in FilterSettings :
              FilteredSnippets(pubSnippets, f[1], f[2], f[3])
                = FilteredSnippets(AnonymousList, f[1], f[2], f[3])

\* C10: whatever creates, visibility toggles and deletes came before, the
\* list the public browser stores from a successful fetch holds exactly the
\* snippets that are public in the catalog when the fetch is answered, each
\* once: no private snippet, every public one.
C10_PublicListIsThePublicCatalog ==
    [][ (/\ ev'.op = "fetchPublicSnippets"
         /\ ev'.st = Ok
         /\ ev'.res = "resolved")
        => /\ \A i \in 1..Len(pubSnippets') :
                 /\ pubSnippets'[i].is_public
                 /\ \E j \in 1..Len(catalog) : catalog[j] = pubSnippets'[i]
                 /\ \A k \in 1..Len(pubSnippets') :
                       pubSnippets'[k].id = pubSnippets'[i].id => k = i
           /\ \A j \in 1..Len(catalog) :
                 catalog[j].is_public
                   => \E i \in 1..Len(pubSnippets') :
                         pubSnippets'[i] = catalog[j] ]_vars

\* A fetch has stored a snippet that was created private and toggled to
\* public, while a snippet created public and toggled back is left out.
C10_Witness ==
    /\ ev.op = "fetchPublicSnippets"
    /\ ev.st = Ok
    /\ ev.res = "resolved"
    /\ \E i \in 1..Len(pubSnippets) : pubSnippets[i].title = <<"H", "i">>
    /\ \E j \in 1..Len(catalog) :
          /\ catalog[j].title = <<"a">>
          /\ ~catalog[j].is_public
          /\ \A i \in 1..Len(pubSnippets) : pubSnippets[i].id # catalog[j].id

\* C11: a delete or a visibility toggle changes the Dashboard's list only in
\* the step that handles the request's successful response: the step that
\* sends the request, a declined confirmation and a failed response leave the
\* list as it was.
C11_ListChangesOnlyOnSuccess ==
    [][ snippets' # snippets
        => \/ ev'.op = "fetchSnippets"
           \/ /\ ev'.op \in {"handleDelete", "handleToggleVisibility"}
              /\ ev'.st = Ok
              /\ ev'.res = "resolved" ]_vars

\* A toggle has failed while the cards were shown.
C11_Witness ==
    /\ ev.op = "handleToggleVisibility"
    /\ ev.st = NetworkError
    /\ snippets # <<>>
    /\ alertMsg = "Failed to update snippet visibility. Please try again."

\* The snippet with this id in a list that holds it.
Of(list, id) == list[CHOOSE i \in 1..Len(list) : list[i].id = id]

\* The Dashboard shows its list and awaits nothing.
DashboardAtRest ==
    path = "/dashboard" /\ ~dashLoading /\ dashError = "" /\ Idle

\* The backend negates is_public once per successful toggle, so the
\* catalog's value is the fetched one exactly after an even number of
\* successful toggles of the snippet.
EvenToggles(id) ==
    Of(catalog, id).is_public = Of(StartCatalog, id).is_public

\* C12: once the toggles of a snippet have been answered, an even number of
\* them successfully, the snippet's is_public in the Dashboard's list is the
\* value it was fetched with.
C12_TwoTogglesRestore ==
    DashboardAtRest
      => \A id \in Ids(snippets) :
            EvenToggles(id)
              => Of(snippets, id).is_public = Of(StartCatalog, id).is_public

\* C14: no snippet has two delete or toggle requests of the Dashboard in
\* flight at once.
C14_OneRequestPerSnippet ==
    \A id \in Ids(StartCatalog) :
        Outstanding(net, {"handleDelete", "handleToggleVisibility"}, id) <= 1

\* C15: once the Dashboard's deletes and toggles have all been answered, the
\* list holds no snippet whose delete succeeded, and a snippet it holds
\* differs in is_public from its fetched value exactly when an odd number of
\* its toggles succeeded.  The backend removes a snippet on a successful
\* delete and nothing else does, and it negates is_public once per
\* successful toggle.
C15_EveryCompletionIsKept ==
    DashboardAtRest
      => \A id \in Ids(snippets) :
            /\ Holds(catalog, id)
            /\ (Of(snippets, id).is_public # Of(StartCatalog, id).is_public)
                 <=> ~EvenToggles(id)

\* C13: the create form never has two createSnippet requests in flight.
C13_OneCreateAtATime == CreatesInFlight <= 1

\* C16: a createSnippet request is sent only with a non-empty title, code
\* and language (the custom language when 'other' is chosen), and a submit
\* that sends nothing shows an error.
C16_NothingSentWithEmptyFields ==
    [][ /\ \A m \in BagToSet(net') :
              (Count(net', m) > Count(net, m) /\ m.op = "onSubmit")
              => /\ m.body[1].title # <<>>
                 /\ m.body[1].code # <<>>
                 /\ m.body[1].language # ""
        /\ (ev'.op = "onSubmit" /\ ev'.st = -1 /\ net' = net)
              => (fieldErrors' # {} \/ formError' # "") ]_vars

\* A submit with an empty title has shown the title's error and sent nothing.
C16_Witness ==
    /\ ev.op = "onSubmit"
    /\ ev.res = "invalid"
    /\ "title" \in fieldErrors
    /\ CreatesInFlight = 0

\* C17: with the Dashboard at rest, its list holds every snippet the backend
\* has accepted from the create form.
C17_CreatedSnippetIsListed ==
    DashboardAtRest => \A id \in Ids(catalog) : id \in Ids(snippets)

\* C18: a protected view is on screen only when the page's effects have
\* run, no startup session check is awaited, and there is a user.
C18_ProtectedNeedsSession ==
    ProtectedShown
      => /\ booted
         /\ Outstanding(net, {"checkAuth"}, 0) = 0
         /\ user # NoUser

\* The session check has just succeeded on a protected route, which is shown.
C18_Witness ==
    /\ ProtectedShown
    /\ ev.op = "checkAuth"
    /\ ev.st = Ok

\* The term occurs in the text when letter case is disregarded.
Occurs(term, text) ==
    \E off \in 0..(Len(text) - Len(term)) :
        \A k \in 1..Len(term) : LowerChar(text[off + k]) = LowerChar(term[k])

\* The snippet passes the three filters as they are set.
PassesFilters(sn) ==
    /\ \/ searchTerm = <<>>
       \/ Occurs(searchTerm, sn.title)
       \/ sn.description # NoDescription /\ Occurs(searchTerm, sn.description)
       \/ Occurs(searchTerm, sn.code)
    /\ selectedLanguage \in {"", sn.language}
    /\ selectedTag = "" \/ selectedTag \in AllTags(<<sn>>)

IsNormalised(name) == name = ToLowerCase(Trim(name))

NormalisedTags(tags) ==
    /\ \A i \in 1..Len(tags) : IsNormalised(tags[i])
    /\ \A i, j \in 1..Len(tags) :
          i # j => ToLowerCase(Trim(tags[i])) # ToLowerCase(Trim(tags[j]))

SessionOps == {"login", "login.me", "signup", "signup.me", "logout"}

\* C21 as stated: the token in storage is written only by login, signup and
\* logout; every step of another operation leaves it unchanged.
C21_OnlySessionOpsWriteToken ==
    [][ storage' # storage => ev'.op \in SessionOps ]_vars

\* C21, amended: the token in storage is set only by a successful token
\* exchange of login or signup, and removed only by logout, by the catch of
\* the startup checkAuth, and by the response interceptor on a 401 for a
\* non-public URL away from '/login'; every other step leaves it unchanged.
C21_TokenWriters ==
    [][ storage' # storage =>
          \/ /\ ev'.op \in {"login", "signup"}
             /\ ev'.st = Ok
             /\ storage' \in LiveTokens
          \/ ev'.op = "logout" /\ storage' = NoToken
          \/ ev'.op = "checkAuth" /\ ev'.st # Ok /\ storage' = NoToken
          \/ /\ ApiFailure(ev')
             /\ ev'.st = Unauthorized
             /\ ~PublicUrl(ev'.url)
             /\ path # "/login"
             /\ storage' = NoToken ]_vars

C21_Witness ==
    /\ ev.op = "checkAuth"
    /\ ev.st = NetworkError
    /\ path = "/login"
    /\ storage = NoToken
    /\ token = NoToken
    /\ \E m \in Requests : m.op = "login.me" /\ m.auth = Bearer("t1")

\* C22: every failed request other than the startup session check ends in an
\* error the user sees: the page that awaited it holds a non-empty error
\* message or an alert was raised, and login and signup reject to their
\* caller; no failure ends with nothing shown.  (A page that was left before
\* the answer came is not asked to show it.)
C22_EveryFailureIsShown ==
    [][ (ev'.st \notin {-1, Ok} /\ ev'.op # "checkAuth"
           /\ ev'.res # "unmounted")
        => CASE ev'.op = "fetchSnippets" -> dashError' # ""
             [] ev'.op \in {"handleDelete", "handleToggleVisibility"} ->
                  alertMsg' # ""
             [] ev'.op = "onSubmit" -> formError' # ""
             [] ev'.op = "fetchSnippet" -> viewError' # ""
             [] ev'.op = "fetchPublicSnippets" -> pubError' # ""
             [] ev'.op \in {"fetchTags", "createTag"} -> tmError' # ""
             [] ev'.op \in {"login", "login.me", "signup", "signup.me"} ->
                  ev'.res = "rejected"
             [] OTHER -> FALSE ]_vars

C24_NoRedirectOnLogin ==
    [][ path = "/login" =>
          /\ ApiFailure(ev') => (nav' = nav /\ path' = "/login")
          /\ (nav' # nav /\ nav' # NoNav) => ev'.op = "logout" ]_vars

C24_Witness ==
    /\ path = "/login"
    /\ ev.op = "checkAuth"
    /\ ev.st = Unauthorized
    /\ ev.client = "api"
    /\ nav = NoNav
    /\ storage = NoToken

\* C25: whenever a login() or signup() made without a session rejects -- at
\* the token exchange or at the current-user request that follows it -- the
\* token in storage and the token and user in memory are what they were when
\* the call was made: there is no session.
C25_FailedLoginLeavesNoSession ==
    [][ (ev'.op \in {"login", "login.me", "signup", "signup.me"}
           /\ ev'.res = "rejected")
        => (storage' = NoToken /\ token' = NoToken /\ user' = NoUser) ]_vars

\* C26: a session that a completed login() or signup() established (a user in
\* memory while the startup checkAuth request, sent with the previous token,
\* is still in flight) survives the late failure of that request: the token
\* in storage, the token in memory and the user stay as login left them.
C26_LateCheckAuthKeepsSession ==
    [][ (ev'.op = "checkAuth" /\ ev'.st # Ok /\ NoSessionOp
           /\ user # NoUser /\ storage = TokenOf(user) /\ token = storage)
        => (storage' = storage /\ token' = token /\ user' = user) ]_vars

\* C27: in every state with no request in flight (and no redirect pending)
\* the session in memory agrees with storage: the in-memory token is the
\* stored one, and there is a user only if a token is stored.
C27_MemoryAgreesWithStorage ==
    (net = EmptyBag /\ nav = NoNav)
        => (token = storage /\ (user # NoUser => storage # NoToken))

\* C28: the snippet view reflects its latest fetch.  When the fetch for the
\* current route id succeeds and no other fetch of the view is outstanding,
\* loading is false, the error is empty and the snippet shown is the one
\* returned for the current id, whatever earlier fetches did.
C28_ViewShowsLatestFetch ==
    [][ ( /\ ev'.op = "fetchSnippet"
          /\ ev'.st = Ok
          /\ ev'.res = "resolved"
          /\ ev'.url = SnippetUrl(viewId)
          /\ \A m \in BagToSet(net') : ~(m.op = "fetchSnippet" /\ m.mounted) )
        => ( /\ ~viewLoading'
             /\ viewError' = ""
             /\ viewSnippet' # NoSnippet
             /\ viewSnippet'[1].id = viewId ) ]_vars

\* C29: the startup session check always finishes.  On every path -- no token
\* in storage, token accepted, token rejected or request failed -- isLoading
\* eventually is false and stays false; a document mounted with no token in
\* storage sends no current-user request, clears isLoading at once and keeps
\* the user null.
CheckAuthInFlight == \E m \in Requests : m.op = "checkAuth"

C29_StartupCheckFinishes ==
    /\ <>[](~isLoading)
    /\ [][ (~booted /\ booted' /\ storage = NoToken)
           => (~isLoading' /\ ~CheckAuthInFlight' /\ user' = NoUser) ]_vars
    /\ [][ (booted /\ booted' /\ ~isLoading) => ~isLoading' ]_vars
    /\ []((booted /\ ~CheckAuthInFlight) => ~isLoading)
    /\ [](storage = NoToken => user = NoUser)

C29_Witness ==
    /\ ev.op = "checkAuth"
    /\ ev.st = NetworkError
    /\ path = "/public-snippets"
    /\ ~isLoading
    /\ user = NoUser
    /\ storage = NoToken
    /\ nav = NoNav

\* C30: whatever tags were typed, picked from the tag manager and removed,
\* the create form's tag list holds no string twice and never the empty
\* string, and removing a tag takes every occurrence of it, and nothing else,
\* out of the list.
TagSet(tags) == { tags[i] : i \in 1..Len(tags) }

C30_FormTagsAreASet ==
    /\ [](\A i, j \in 1..Len(formTags) : i # j => formTags[i] # formTags[j])
    /\ [](<<>> \notin TagSet(formTags))
    /\ [][ ev'.op = "handleRemoveTag"
           => \E tag \in TagSet(formTags) :
                 TagSet(formTags') = TagSet(formTags) \ {tag} ]_vars

C30_Witness ==
    /\ ev.op = "handleTagClick"
    /\ formTags = << <<"b">>, <<"a">> >>
    /\ ~tmOpen

============================================================================
